---- MODULE Spec2Model ----
(***************************************************************************)
(* Model of streamrip's asynchronous acquisition core:                     *)
(*   - media/label.py   : Label.download, the chunked resolve-then-rip     *)
(*                        orchestrator (specification SpecLabel);          *)
(*   - media/artwork.py : download_artwork and remove_artwork_tempdirs     *)
(*                        (specification SpecArtwork).                     *)
(* Coroutines run on one asyncio event loop: a step of the model is the    *)
(* code a coroutine runs between two suspension points.                    *)
(***************************************************************************)
EXTENDS Integers, Sequences, FiniteSets, TLC

\* ---------------------------------------------------------------- bounds
\* Longest list of pending albums explored.
MaxAlbums == 7

\* label.py:36 sets album_resolve_chunk_size = 10; the model explores the
\* same code with a scaled-down chunk size so that several chunks fit in
\* MaxAlbums.
album_resolve_chunk_size == 3

\* Number of download_artwork calls that may be in flight together.
NumCalls == 2

\* Number of times remove_artwork_tempdirs may run.
MaxTeardowns == 2

\* Python's None where an album is expected.
NoAlbum == "None"

\* Python's None where a path or a url is expected (both are sequences).
None == <<>>

VARIABLES
    \* ---- Label.download
    albums,        \* self.albums: the pending albums, as item numbers 1..n
    dl_pc,         \* position of Label.download
    batches,       \* the chunks produced by self.batch(...)
    batch_ix,      \* index of the chunk asyncio.gather is waiting for
    item_pc,       \* position of each _resolve_download(item) coroutine
    resolve_calls, \* number of item.resolve() calls per item
    resolve_result,\* what item.resolve() gave: "album", NoAlbum, or "-" (not yet)
    rip_calls      \* number of album.rip() calls per item

labelVars == <<albums, dl_pc, batches, batch_ix, item_pc, resolve_calls,
               resolve_result, rip_calls>>

VARIABLES
    \* ---- download_artwork, one entry per call
    a_in,          \* arguments: folder, covers (as passed), config, for_playlist
    a_pc,          \* position of the call
    covers,        \* the Covers object of the call's media item
    a_saved,       \* local saved_cover_path
    a_embed,       \* local embed_cover_path
    a_tasks,       \* state of the download task of each decision
    a_made,        \* scratch directory this call passed to os.makedirs
    a_ret,         \* returned tuple (embed_cover_path, saved_cover_path)
    a_exc,         \* what made the call raise
    a_downscaled,  \* files on which downscale_image completed in this call
    a_setters,     \* Covers setters this call invoked
    \* ---- process-wide
    artwork_tempdirs, \* _artwork_tempdirs
    fs_dirs,       \* scratch directories present on the filesystem
    created,       \* scratch directories created by download_artwork calls
    td_pc,         \* outcome of the last remove_artwork_tempdirs call
    td_runs,       \* number of remove_artwork_tempdirs calls
    td_attempted   \* paths the last call passed to shutil.rmtree

callVars == <<a_in, a_pc, covers, a_saved, a_embed, a_tasks, a_made, a_ret,
              a_exc, a_downscaled, a_setters>>
procVars == <<artwork_tempdirs, fs_dirs, created, td_pc, td_runs, td_attempted>>
artVars == <<callVars, procVars>>

VARIABLES
    \* ---- PendingLabel.resolve
    pl_pc,         \* position of the call
    pl_ids,        \* album ids the label metadata holds
    pl_out,        \* what resolve returned: None or the ids of Label.albums
    \* ---- Label.batch
    b_iterable,    \* argument iterable
    b_n,           \* argument n
    b_pc,          \* "init", then "done" once the generator is exhausted
    b_out,         \* the slices yielded, in order
    \* ---- downscale_image
    img_size,      \* (width, height) of the file at input_image_path
    img_orig,      \* its size before the first call
    img_first,     \* its size after the first call
    ds_max,        \* argument max_dimension
    ds_runs,       \* number of downscale_image calls made on the file
    ds_last        \* how the last call ended

resolveVars == <<pl_pc, pl_ids, pl_out>>
batchVars == <<b_iterable, b_n, b_pc, b_out>>
imageVars == <<img_size, img_orig, img_first, ds_max, ds_runs, ds_last>>
otherVars == <<resolveVars, batchVars, imageVars>>

vars == <<labelVars, artVars, otherVars>>

Min(a, b) == IF a < b THEN a ELSE b

SeqRange(s) == { s[k] : k \in 1..Len(s) }

Calls == 1..NumCalls

\* No download_artwork call exists and nothing is registered.
ArtQuiet ==
    /\ a_in = [p \in Calls |-> None]
    /\ a_pc = [p \in Calls |-> "absent"]
    /\ covers = [p \in Calls |-> None]
    /\ a_saved = [p \in Calls |-> None]
    /\ a_embed = [p \in Calls |-> None]
    /\ a_tasks = [p \in Calls |-> [saved |-> "none", embed |-> "none"]]
    /\ a_made = [p \in Calls |-> None]
    /\ a_ret = [p \in Calls |-> None]
    /\ a_exc = [p \in Calls |-> ""]
    /\ a_downscaled = [p \in Calls |-> {}]
    /\ a_setters = [p \in Calls |-> {}]
    /\ artwork_tempdirs = {}
    /\ fs_dirs = {}
    /\ created = {}
    /\ td_pc = "idle"
    /\ td_runs = 0
    /\ td_attempted = {}

\* No PendingLabel.resolve, Label.batch or downscale_image call is studied.
OtherQuiet ==
    /\ pl_pc = "absent"
    /\ pl_ids = <<>>
    /\ pl_out = <<>>
    /\ b_iterable = <<>>
    /\ b_n = 1
    /\ b_pc = "absent"
    /\ b_out = <<>>
    /\ img_size = <<1, 1>>
    /\ img_orig = <<1, 1>>
    /\ img_first = <<1, 1>>
    /\ ds_max = 1
    /\ ds_runs = 0
    /\ ds_last = "absent"

\* No Label is being downloaded.
LabelQuiet ==
    /\ albums = <<>>
    /\ dl_pc = "init"
    /\ batches = <<>>
    /\ batch_ix = 0
    /\ item_pc = <<>>
    /\ resolve_calls = <<>>
    /\ resolve_result = <<>>
    /\ rip_calls = <<>>

\* ------------------------------------------------------------ Label.batch
\* range(0, total, n): the start offsets 0, n, 2n, ... below total.
RangeStarts(total, n) == { ndx \in 0..(total - 1) : ndx % n = 0 }

\* Faulty variant: every chunk takes one element more than n.
batch_overlong(iterable, n) ==
    LET total == Len(iterable)
    IN  [ k \in 1..Cardinality(RangeStarts(total, n)) |->
            SubSeq(iterable, (k - 1) * n + 1, Min((k - 1) * n + n + 1, total)) ]

\* Faulty variant: a last chunk shorter than n is not yielded.
batch_no_tail(iterable, n) ==
    [ k \in 1..(Len(iterable) \div n) |->
        SubSeq(iterable, (k - 1) * n + 1, (k - 1) * n + n) ]

\* Label.batch(iterable, n): the k-th yielded slice is
\* iterable[ndx : min(ndx + n, total)] with ndx = (k-1)*n (0-based, end
\* exclusive), i.e. positions ndx+1 .. min(ndx+n,total) counted from 1.
batch(iterable, n) ==
    LET total == Len(iterable)
    IN  [ k \in 1..Cardinality(RangeStarts(total, n)) |->
            SubSeq(iterable, (k - 1) * n + 1, Min((k - 1) * n + n, total)) ]

Items == 1..Len(albums)

\* Items of the chunk currently handed to asyncio.gather.
CurChunk == IF batch_ix \in 1..Len(batches) THEN SeqRange(batches[batch_ix]) ELSE {}

\* Chunk number an item belongs to (0 before the chunks are built).
ChunkOf(i) ==
    IF \E k \in 1..Len(batches) : i \in SeqRange(batches[k])
    THEN CHOOSE k \in 1..Len(batches) : i \in SeqRange(batches[k])
    ELSE 0

\* Positions of a _resolve_download coroutine:
\*   created   - coroutine object built (label.py:45), not yet a task
\*   scheduled - wrapped in a task by asyncio.gather, first step not yet run
\*   resolving - suspended in `await item.resolve()`   (label.py:39)
\*   ripping   - suspended in `await album.rip()`      (label.py:42)
\*   no_album  - returned at label.py:41 (resolve gave None)
\*   done      - returned after rip
\*   raised    - album.rip() raised; the coroutine ended with that exception
ItemPcs == {"created", "scheduled", "resolving", "ripping", "no_album", "done", "raised"}

\* The spec's per-item state machine, read off the coroutine position.
ItemState(i) ==
    CASE item_pc[i] \in {"created", "scheduled", "resolving"} -> "Pending"
      [] item_pc[i] = "ripping"                               -> "Resolved"
      [] item_pc[i] = "done"                                  -> "Done"
      [] item_pc[i] \in {"no_album", "raised"}                -> "Failed"

Terminal(i) == ItemState(i) \in {"Done", "Failed"}

\* Has the task of item i run its first step (entered item.resolve())?
Started(i) == item_pc[i] \notin {"created", "scheduled"}

InFlight == { i \in Items : Started(i) /\ ~Terminal(i) }

InitLabel ==
    /\ albums \in { [k \in 1..n |-> k] : n \in 0..MaxAlbums }
    /\ dl_pc = "init"
    /\ batches = <<>>
    /\ batch_ix = 0
    /\ item_pc = [i \in 1..Len(albums) |-> "created"]
    /\ resolve_calls = [i \in 1..Len(albums) |-> 0]
    /\ resolve_result = [i \in 1..Len(albums) |-> "-"]
    /\ rip_calls = [i \in 1..Len(albums) |-> 0]
    /\ ArtQuiet
    /\ OtherQuiet

\* asyncio.gather(*batch): every coroutine of the chunk becomes a task.
GatherChunk(pcs, chunk) ==
    [i \in DOMAIN pcs |-> IF i \in SeqRange(chunk) THEN "scheduled" ELSE pcs[i]]

\* Faulty variant: gather also schedules the chunk that follows.
ScheduleFrom_pipelined(bs, k) ==
    IF k > Len(bs)
    THEN [pc |-> "returned", ix |-> k, items |-> item_pc]
    ELSE [pc |-> "gather", ix |-> k,
          items |-> IF k + 1 <= Len(bs)
                    THEN GatherChunk(GatherChunk(item_pc, bs[k]), bs[k + 1])
                    ELSE GatherChunk(item_pc, bs[k])]

\* One turn of `for batch in batches: await asyncio.gather(*batch)`
\* (label.py:48-49) entering chunk k: past the last chunk the method returns.
ScheduleFrom(bs, k) ==
    IF k > Len(bs)
    THEN [pc |-> "returned", ix |-> k, items |-> item_pc]
    ELSE [pc |-> "gather", ix |-> k, items |-> GatherChunk(item_pc, bs[k])]

\* Label.download up to its first suspension (label.py:36-49).
DownloadStart ==
    /\ dl_pc = "init"
    /\ LET bs == batch(albums, album_resolve_chunk_size)
           s  == ScheduleFrom(bs, 1)
       IN  /\ batches' = bs
           /\ dl_pc' = s.pc
           /\ batch_ix' = s.ix
           /\ item_pc' = s.items
    /\ UNCHANGED <<albums, resolve_calls, resolve_result, rip_calls>>
    /\ UNCHANGED <<artVars, otherVars>>

\* First step of a task: runs to `await item.resolve()`.  The loop runs the
\* tasks of a gather in argument order.
TaskStart(i) ==
    /\ item_pc[i] = "scheduled"
    /\ \A j \in Items : (j < i) => item_pc[j] # "scheduled"
    /\ item_pc' = [item_pc EXCEPT ![i] = "resolving"]
    /\ resolve_calls' = [resolve_calls EXCEPT ![i] = @ + 1]
    /\ UNCHANGED <<albums, dl_pc, batches, batch_ix, resolve_result, rip_calls>>
    /\ UNCHANGED <<artVars, otherVars>>

\* Faulty variant: a failed resolve surfaces as an exception of the coroutine
\* instead of the early return.
ResolveNone_raises(i) ==
    /\ item_pc[i] = "resolving"
    /\ item_pc' = [item_pc EXCEPT ![i] = "raised"]
    /\ resolve_result' = [resolve_result EXCEPT ![i] = NoAlbum]
    /\ UNCHANGED <<albums, dl_pc, batches, batch_ix, resolve_calls, rip_calls>>
    /\ UNCHANGED <<artVars, otherVars>>

\* item.resolve() yields None: `return` at label.py:40-41.
ResolveNone(i) ==
    /\ item_pc[i] = "resolving"
    /\ item_pc' = [item_pc EXCEPT ![i] = "no_album"]
    /\ resolve_result' = [resolve_result EXCEPT ![i] = NoAlbum]
    /\ UNCHANGED <<albums, dl_pc, batches, batch_ix, resolve_calls, rip_calls>>
    /\ UNCHANGED <<artVars, otherVars>>

\* item.resolve() yields an album: runs on to `await album.rip()`.
ResolveAlbum(i) ==
    /\ item_pc[i] = "resolving"
    /\ item_pc' = [item_pc EXCEPT ![i] = "ripping"]
    /\ resolve_result' = [resolve_result EXCEPT ![i] = "album"]
    /\ rip_calls' = [rip_calls EXCEPT ![i] = @ + 1]
    /\ UNCHANGED <<albums, dl_pc, batches, batch_ix, resolve_calls>>
    /\ UNCHANGED <<artVars, otherVars>>

\* album.rip() returns: the coroutine ends normally.
RipReturn(i) ==
    /\ item_pc[i] = "ripping"
    /\ item_pc' = [item_pc EXCEPT ![i] = "done"]
    /\ UNCHANGED <<albums, dl_pc, batches, batch_ix, resolve_calls, resolve_result, rip_calls>>
    /\ UNCHANGED <<artVars, otherVars>>

\* album.rip() raises: nothing in _resolve_download catches it.
RipRaise(i) ==
    /\ item_pc[i] = "ripping"
    /\ item_pc' = [item_pc EXCEPT ![i] = "raised"]
    /\ UNCHANGED <<albums, dl_pc, batches, batch_ix, resolve_calls, resolve_result, rip_calls>>
    /\ UNCHANGED <<artVars, otherVars>>

\* asyncio.gather resumes Label.download with a result once every task of
\* the chunk has returned; the for loop goes on to the next chunk.
GatherDone ==
    /\ dl_pc = "gather"
    /\ \A i \in CurChunk : item_pc[i] \in {"no_album", "done"}
    /\ LET s == ScheduleFrom(batches, batch_ix + 1)
       IN  /\ dl_pc' = s.pc
           /\ batch_ix' = s.ix
           /\ item_pc' = s.items
    /\ UNCHANGED <<albums, batches, resolve_calls, resolve_result, rip_calls>>
    /\ UNCHANGED <<artVars, otherVars>>

\* asyncio.gather (return_exceptions=False) re-raises the first exception
\* of a task in Label.download, which has no handler: the method ends with
\* it.  The other tasks of the chunk are not cancelled and keep running.
\* Every task of the chunk has run its first step by then.
GatherRaise ==
    /\ dl_pc = "gather"
    /\ \E i \in CurChunk : item_pc[i] = "raised"
    /\ \A i \in CurChunk : item_pc[i] # "scheduled"
    /\ dl_pc' = "raised"
    /\ UNCHANGED <<albums, batches, batch_ix, item_pc, resolve_calls, resolve_result, rip_calls>>
    /\ UNCHANGED <<artVars, otherVars>>

NextLabel ==
    \/ DownloadStart
    \/ \E i \in Items : TaskStart(i)
    \/ \E i \in Items : ResolveNone(i)
    \/ \E i \in Items : ResolveAlbum(i)
    \/ \E i \in Items : RipReturn(i)
    \/ \E i \in Items : RipRaise(i)
    \/ GatherDone
    \/ GatherRaise

SpecLabel == InitLabel /\ [][NextLabel]_vars

\* ------------------------------------------------- claims on Label.download
DownloadOver == dl_pc \in {"returned", "raised"}

\* C1: an album.rip() error is caught at the item's boundary: it does not
\* propagate out of Label.download, and when Label.download is over every
\* item (siblings and later chunks alike) has reached a terminal state.
C1_ExecuteFailureIsolated ==
    (\E i \in Items : item_pc[i] = "raised") =>
        /\ dl_pc # "raised"
        /\ DownloadOver => \A j \in Items : Terminal(j)

\* C2: an item whose resolve yields no album ends Failed and is never
\* ripped; a resolve failure alone never makes Label.download raise; and
\* once Label.download is over with no rip error, every other item of
\* every chunk is Done and the Failed items are exactly the items whose
\* resolution failed.
C2_ResolveFailureIsolated ==
    /\ \A i \in Items : resolve_result[i] = NoAlbum =>
            ItemState(i) = "Failed" /\ rip_calls[i] = 0
    /\ dl_pc = "raised" =>
            \E i \in Items : item_pc[i] = "raised" /\ resolve_result[i] = "album"
    /\ (DownloadOver /\ \A i \in Items : item_pc[i] # "raised") =>
            /\ \A i \in Items : resolve_result[i] # NoAlbum => ItemState(i) = "Done"
            /\ Cardinality({i \in Items : ItemState(i) = "Failed"})
                 = Cardinality({i \in Items : resolve_result[i] = NoAlbum})

\* Witness: download over, two chunks, an item of the first chunk failed
\* resolution, its sibling and the items of the later chunk are Done.
C2_Witness ==
    /\ dl_pc = "returned"
    /\ Len(batches) >= 2
    /\ \E i, j, k \in Items :
          /\ ChunkOf(i) = 1 /\ resolve_result[i] = NoAlbum
          /\ ChunkOf(j) = 1 /\ ItemState(j) = "Done"
          /\ ChunkOf(k) = 2 /\ ItemState(k) = "Done"

\* C3: chunks are strictly sequenced: no item of a later chunk has started
\* its resolve step while an item of an earlier chunk is not terminal.
C3_ChunksSequenced ==
    \A i, j \in Items :
        (ChunkOf(i) < ChunkOf(j) /\ Started(j)) => Terminal(i)

\* Witness: an item of chunk 2 is running after chunk 1 drained with one
\* success and one failure.
C3_Witness ==
    \E i, j, k \in Items :
        /\ ChunkOf(i) = 1 /\ ItemState(i) = "Failed"
        /\ ChunkOf(j) = 1 /\ ItemState(j) = "Done"
        /\ ChunkOf(k) = 2 /\ Started(k) /\ ~Terminal(k)

\* C8: every item follows Pending -> Resolved -> Done, Pending -> Failed or
\* Resolved -> Failed; Done and Failed are absorbing; rip is called at most
\* once and only after resolve gave an album; resolve is never called
\* twice, and once Label.download is over it has been called exactly once
\* for every item.
ItemTransitions ==
    { <<"Pending", "Pending">>, <<"Pending", "Resolved">>, <<"Pending", "Failed">>,
      <<"Resolved", "Resolved">>, <<"Resolved", "Done">>, <<"Resolved", "Failed">>,
      <<"Done", "Done">>, <<"Failed", "Failed">> }

C8_ItemStep(i) ==
    /\ <<ItemState(i), ItemState(i)'>> \in ItemTransitions
    /\ resolve_calls'[i] <= 1
    /\ Started(i)' => resolve_calls'[i] = 1
    /\ rip_calls'[i] <= 1
    /\ rip_calls'[i] = 1 <=> resolve_result'[i] = "album"
    /\ ItemState(i)' \in {"Resolved", "Done"} => resolve_result'[i] = "album"
    /\ Terminal(i) =>
          /\ item_pc'[i] = item_pc[i]
          /\ resolve_calls'[i] = resolve_calls[i]
          /\ rip_calls'[i] = rip_calls[i]
    /\ DownloadOver' => resolve_calls'[i] = 1

C8_ItemStateMachine == [][\A i \in Items : C8_ItemStep(i)]_vars

Keys == <<"large", "small">>
KeySet == SeqRange(Keys)

UrlOf(k) == <<"http", k>>
Folders == { <<"f1">>, <<"f2">> }
\* A file materialized before the call.
OldPath == <<"lib", "old.jpg">>

\* os.path.join(a, name)
Join(a, name) == Append(a, name)

\* hash(url): an integer fixed per url for the life of the process.
StrHash(url) == IF url = UrlOf("large") THEN 11 ELSE 22

\* os.path.join(embed_dir, f"cover{hash(embed_url)}.jpg")
EmbedFile(embed_dir, url) == embed_dir \o <<"cover", StrHash(url), ".jpg">>

\* The catalogs a call may receive: every key with or without its url, with
\* or without a local path.
Catalogs ==
    { c \in [KeySet -> [url : {None} \cup {UrlOf(k) : k \in KeySet},
                        path : {None, OldPath}]] :
        \A k \in KeySet : c[k].url \in {None, UrlOf(k)} }

\* A variant exists when it has a url or a local path.
Defined(e) == e.url # None \/ e.path # None

\* Covers.empty(): no key has a url or a path.
empty(c) == \A k \in KeySet : ~Defined(c[k])

KeyIndex(k) == CHOOSE n \in 1..Len(Keys) : Keys[n] = k

\* Key of the highest-resolution variant that exists.
LargestKey(c) ==
    Keys[CHOOSE n \in 1..Len(Keys) :
            /\ Defined(c[Keys[n]])
            /\ \A m \in 1..(n - 1) : ~Defined(c[Keys[m]])]

\* Covers.largest() -> (size, url, path)
largest(c) == c[LargestKey(c)]

Dist(a, b) == IF a < b THEN b - a ELSE a - b

\* Covers.get_size(size): the variant of that key, or the nearest one that
\* exists when the key has none.
get_size(c, size) ==
    IF Defined(c[size]) THEN c[size]
    ELSE c[Keys[CHOOSE n \in 1..Len(Keys) :
                  /\ Defined(c[Keys[n]])
                  /\ \A m \in 1..Len(Keys) : Defined(c[Keys[m]]) =>
                        \/ Dist(n, KeyIndex(size)) < Dist(m, KeyIndex(size))
                        \/ Dist(n, KeyIndex(size)) = Dist(m, KeyIndex(size)) /\ n <= m]]

\* Covers.set_path(size, path)
set_path(c, size, path) == [c EXCEPT ![size].path = path]

\* Covers.set_largest_path(path)
set_largest_path(c, path) == set_path(c, LargestKey(c), path)

\* ------------------------------------------------------- ArtworkConfig
\* A positive width bound (0 means unbounded).
SomeWidth == 600

Configs == [save_artwork : BOOLEAN, embed : BOOLEAN, embed_size : KeySet,
            saved_max_width : {0, SomeWidth}, embed_max_width : {0, SomeWidth}]

\* ------------------------------------------------------ download_artwork
\* Faulty variant: a task is created for the largest variant even when it already
\* has a local path.
prepare_saved_cover_redownload(folder, c, save_artwork) ==
    IF ~save_artwork THEN [path |-> None, task |-> FALSE]
    ELSE LET l == largest(c)
         IN  IF l.url # None
             THEN [path |-> Join(folder, "cover.jpg"), task |-> TRUE]
             ELSE [path |-> l.path, task |-> FALSE]

\* _prepare_saved_cover: the path to report and whether a download task was
\* appended.
prepare_saved_cover(folder, c, save_artwork) ==
    IF ~save_artwork THEN [path |-> None, task |-> FALSE]
    ELSE LET l == largest(c)
         IN  IF l.path = None /\ l.url # None
             THEN [path |-> Join(folder, "cover.jpg"), task |-> TRUE]
             ELSE [path |-> l.path, task |-> FALSE]

\* Faulty variant: the scratch directory is made but not added to _artwork_tempdirs.
prepare_embed_cover_unregistered(folder, c, config, embed) ==
    IF ~embed THEN [path |-> None, task |-> FALSE, makedirs |-> None, add |-> None]
    ELSE LET e == get_size(c, config.embed_size)
         IN  IF e.path = None /\ e.url # None
             THEN LET embed_dir == Join(folder, "__artwork")
                  IN  [path |-> EmbedFile(embed_dir, e.url), task |-> TRUE,
                       makedirs |-> embed_dir, add |-> None]
             ELSE [path |-> e.path, task |-> FALSE, makedirs |-> None, add |-> None]

\* _prepare_embed_cover: the path to report, whether a download task was
\* appended, the directory given to os.makedirs and the one added to
\* _artwork_tempdirs (None when that branch is not taken).
prepare_embed_cover(folder, c, config, embed) ==
    IF ~embed THEN [path |-> None, task |-> FALSE, makedirs |-> None, add |-> None]
    ELSE LET e == get_size(c, config.embed_size)
         IN  IF e.path = None /\ e.url # None
             THEN LET embed_dir == Join(folder, "__artwork")
                  IN  [path |-> EmbedFile(embed_dir, e.url), task |-> TRUE,
                       makedirs |-> embed_dir, add |-> embed_dir]
             ELSE [path |-> e.path, task |-> FALSE, makedirs |-> None, add |-> None]

\* Outcomes of the downscale_image calls of one _update_covers run: all
\* return, or the one on the saved file raises, or the one on the embed
\* file raises.
DownscaleOutcomes == {"ok", "saved_raises", "embed_raises"}

\* _update_covers, given which downscale_image call (if any) raises: the
\* catalog it leaves, the exception that escapes and the files whose
\* downscale completed.
update_covers(c, config, save_artwork, saved_cover_path, embed, embed_cover_path, ds) ==
    LET do_saved == save_artwork /\ saved_cover_path # None
        c1 == IF do_saved THEN set_largest_path(c, saved_cover_path) ELSE c
        ds_saved == do_saved /\ config.saved_max_width > 0
        do_embed == embed /\ embed_cover_path # None
        c2 == IF do_embed THEN set_path(c1, config.embed_size, embed_cover_path) ELSE c1
        ds_embed == do_embed /\ config.embed_max_width > 0
        after_saved == IF ds_saved THEN {saved_cover_path} ELSE {}
        set_saved == IF do_saved THEN {"set_largest_path"} ELSE {}
        set_embed == IF do_embed THEN {"set_path"} ELSE {}
    IN  IF ds = "saved_raises"
        THEN [possible |-> ds_saved, covers |-> c1, exc |-> "downscale_saved",
              downscaled |-> {}, setters |-> set_saved]
        ELSE IF ds = "embed_raises"
        THEN [possible |-> ds_embed, covers |-> c2, exc |-> "downscale_embed",
              downscaled |-> after_saved, setters |-> set_saved \cup set_embed]
        ELSE [possible |-> TRUE, covers |-> c2, exc |-> "",
              downscaled |-> after_saved \cup (IF ds_embed THEN {embed_cover_path} ELSE {}),
              setters |-> set_saved \cup set_embed]

\* Faulty variant: the playlist context is not looked at.
SaveActive_any_context(p) == a_in[p].config.save_artwork

\* artwork.py:35
SaveActive(p) == a_in[p].config.save_artwork /\ ~a_in[p].for_playlist
EmbedActive(p) == a_in[p].config.embed

NoTasks == [saved |-> "none", embed |-> "none"]
TaskKinds == {"saved", "embed"}

\* artwork.py:48-50: _update_covers, then return the two paths; an
\* exception of downscale_image escapes download_artwork.
UpdateAndReturn(p, sp, ep, ds) ==
    LET u == update_covers(covers[p], a_in[p].config, SaveActive(p), sp,
                           EmbedActive(p), ep, ds)
    IN  /\ u.possible
        /\ covers' = [covers EXCEPT ![p] = u.covers]
        /\ a_downscaled' = [a_downscaled EXCEPT ![p] = u.downscaled]
        /\ a_setters' = [a_setters EXCEPT ![p] = u.setters]
        /\ a_exc' = [a_exc EXCEPT ![p] = u.exc]
        /\ a_pc' = [a_pc EXCEPT ![p] = IF u.exc = "" THEN "returned" ELSE "raised"]
        /\ a_ret' = [a_ret EXCEPT ![p] = IF u.exc = "" THEN <<ep, sp>> ELSE None]

CanCall(p) == a_pc[p] = "idle" /\ td_runs = 0

ShortCircuits(p) == ~(SaveActive(p) \/ EmbedActive(p)) \/ empty(covers[p])

\* Faulty variant: the early return comes after the scratch directory was
\* made and registered.
CallShortCircuit_late(p) ==
    /\ CanCall(p)
    /\ ShortCircuits(p)
    /\ a_pc' = [a_pc EXCEPT ![p] = "returned"]
    /\ a_ret' = [a_ret EXCEPT ![p] = <<None, None>>]
    /\ fs_dirs' = fs_dirs \cup {Join(a_in[p].folder, "__artwork")}
    /\ created' = created \cup ({Join(a_in[p].folder, "__artwork")} \ fs_dirs)
    /\ artwork_tempdirs' = artwork_tempdirs \cup {Join(a_in[p].folder, "__artwork")}
    /\ UNCHANGED <<a_in, covers, a_saved, a_embed, a_tasks, a_made, a_exc, a_downscaled, a_setters>>
    /\ UNCHANGED <<td_pc, td_runs, td_attempted, labelVars, otherVars>>

\* artwork.py:38-39: nothing to do, return (None, None).
CallShortCircuit(p) ==
    /\ CanCall(p)
    /\ ShortCircuits(p)
    /\ a_pc' = [a_pc EXCEPT ![p] = "returned"]
    /\ a_ret' = [a_ret EXCEPT ![p] = <<None, None>>]
    /\ UNCHANGED <<a_in, covers, a_saved, a_embed, a_tasks, a_made, a_exc, a_downscaled, a_setters>>
    /\ UNCHANGED <<procVars, labelVars, otherVars>>

Saved(p) == prepare_saved_cover(a_in[p].folder, covers[p], SaveActive(p))
Embed(p) == prepare_embed_cover(a_in[p].folder, covers[p], a_in[p].config, EmbedActive(p))

\* os.makedirs(embed_dir, exist_ok=True) raises (artwork.py:69): the
\* exception escapes before anything is registered or scheduled.
CallMakedirsRaises(p) ==
    /\ CanCall(p)
    /\ ~ShortCircuits(p)
    /\ Embed(p).makedirs # None
    /\ a_pc' = [a_pc EXCEPT ![p] = "raised"]
    /\ a_exc' = [a_exc EXCEPT ![p] = "makedirs"]
    /\ UNCHANGED <<a_in, covers, a_saved, a_embed, a_tasks, a_made, a_ret, a_downscaled, a_setters>>
    /\ UNCHANGED <<procVars, labelVars, otherVars>>

\* Faulty variant: registering replaces the registry instead of adding to it.
Prepare_overwrite(p) ==
    LET s == Saved(p)
        e == Embed(p)
        made == IF e.makedirs = None THEN {} ELSE {e.makedirs}
        added == IF e.add = None THEN {} ELSE {e.add}
    IN  /\ a_saved' = [a_saved EXCEPT ![p] = s.path]
        /\ a_embed' = [a_embed EXCEPT ![p] = e.path]
        /\ a_made' = [a_made EXCEPT ![p] = e.makedirs]
        /\ a_tasks' = [a_tasks EXCEPT ![p] =
                          [saved |-> IF s.task THEN "running" ELSE "none",
                           embed |-> IF e.task THEN "running" ELSE "none"]]
        /\ fs_dirs' = fs_dirs \cup made
        /\ created' = created \cup (made \ fs_dirs)
        /\ artwork_tempdirs' = IF added = {} THEN artwork_tempdirs ELSE added

\* Effects of the two prepare steps (artwork.py:41-43) on the locals, the
\* filesystem and the registry.
Prepare(p) ==
    LET s == Saved(p)
        e == Embed(p)
        made == IF e.makedirs = None THEN {} ELSE {e.makedirs}
        added == IF e.add = None THEN {} ELSE {e.add}
    IN  /\ a_saved' = [a_saved EXCEPT ![p] = s.path]
        /\ a_embed' = [a_embed EXCEPT ![p] = e.path]
        /\ a_made' = [a_made EXCEPT ![p] = e.makedirs]
        /\ a_tasks' = [a_tasks EXCEPT ![p] =
                          [saved |-> IF s.task THEN "running" ELSE "none",
                           embed |-> IF e.task THEN "running" ELSE "none"]]
        /\ fs_dirs' = fs_dirs \cup made
        /\ created' = created \cup (made \ fs_dirs)
        /\ artwork_tempdirs' = artwork_tempdirs \cup added

\* download_artwork up to `await _perform_downloads(download_tasks)`
\* (artwork.py:35-45) when at least one task was appended.
CallSchedules(p) ==
    /\ CanCall(p)
    /\ ~ShortCircuits(p)
    /\ Saved(p).task \/ Embed(p).task
    /\ Prepare(p)
    /\ a_pc' = [a_pc EXCEPT ![p] = "downloading"]
    /\ UNCHANGED <<a_in, covers, a_ret, a_exc, a_downscaled, a_setters>>
    /\ UNCHANGED <<td_pc, td_runs, td_attempted, labelVars, otherVars>>

\* download_artwork when download_tasks stays empty: no await, straight to
\* _update_covers and the return (artwork.py:35-50).
CallNoTasks(p) ==
    /\ CanCall(p)
    /\ ~ShortCircuits(p)
    /\ ~(Saved(p).task \/ Embed(p).task)
    /\ Prepare(p)
    /\ \E ds \in DownscaleOutcomes : UpdateAndReturn(p, Saved(p).path, Embed(p).path, ds)
    /\ UNCHANGED <<a_in>>
    /\ UNCHANGED <<td_pc, td_runs, td_attempted, labelVars, otherVars>>

\* A download task (BasicDownloadable.download) completes.
TaskOk(p, t) ==
    /\ a_pc[p] \notin {"absent", "idle"}
    /\ a_tasks[p][t] = "running"
    /\ a_tasks' = [a_tasks EXCEPT ![p][t] = "ok"]
    /\ UNCHANGED <<a_in, a_pc, covers, a_saved, a_embed, a_made, a_ret, a_exc, a_downscaled, a_setters>>
    /\ UNCHANGED <<procVars, labelVars, otherVars>>

\* A download task raises.
TaskFail(p, t) ==
    /\ a_pc[p] \notin {"absent", "idle"}
    /\ a_tasks[p][t] = "running"
    /\ a_tasks' = [a_tasks EXCEPT ![p][t] = "failed"]
    /\ UNCHANGED <<a_in, a_pc, covers, a_saved, a_embed, a_made, a_ret, a_exc, a_downscaled, a_setters>>
    /\ UNCHANGED <<procVars, labelVars, otherVars>>

\* _perform_downloads returns True (every task done), then
\* artwork.py:48-50.
GatherOk(p) ==
    /\ a_pc[p] = "downloading"
    /\ \A t \in TaskKinds : a_tasks[p][t] \in {"none", "ok"}
    /\ \E ds \in DownscaleOutcomes : UpdateAndReturn(p, a_saved[p], a_embed[p], ds)
    /\ UNCHANGED <<a_in, a_saved, a_embed, a_tasks, a_made>>
    /\ UNCHANGED <<procVars, labelVars, otherVars>>

\* Faulty variant: the failed batch is reported as a success.
GatherFail_ignored(p) ==
    /\ a_pc[p] = "downloading"
    /\ \E t \in TaskKinds : a_tasks[p][t] = "failed"
    /\ UpdateAndReturn(p, a_saved[p], a_embed[p], "ok")
    /\ UNCHANGED <<a_in, a_saved, a_embed, a_tasks, a_made>>
    /\ UNCHANGED <<procVars, labelVars, otherVars>>

\* asyncio.gather re-raises the first task exception; _perform_downloads
\* catches it and returns False; download_artwork returns (None, None)
\* (artwork.py:45-46, 84-86).  The other task is not cancelled.
GatherFail(p) ==
    /\ a_pc[p] = "downloading"
    /\ \E t \in TaskKinds : a_tasks[p][t] = "failed"
    /\ a_pc' = [a_pc EXCEPT ![p] = "returned"]
    /\ a_ret' = [a_ret EXCEPT ![p] = <<None, None>>]
    /\ UNCHANGED <<a_in, covers, a_saved, a_embed, a_tasks, a_made, a_exc, a_downscaled, a_setters>>
    /\ UNCHANGED <<procVars, labelVars, otherVars>>

\* ------------------------------------------------ remove_artwork_tempdirs
\* The cleanup hook runs when no download_artwork call is suspended.
CanTeardown ==
    /\ td_runs < MaxTeardowns
    /\ \A p \in Calls : a_pc[p] # "downloading"

\* Faulty variant: a path is dropped from the walk.
TeardownReturns_skips ==
    /\ CanTeardown
    /\ \E skipped \in artwork_tempdirs :
          /\ fs_dirs' = fs_dirs \ (artwork_tempdirs \ {skipped})
          /\ td_attempted' = artwork_tempdirs \ {skipped}
    /\ td_pc' = "returned"
    /\ td_runs' = td_runs + 1
    /\ UNCHANGED <<artwork_tempdirs, created, callVars, labelVars, otherVars>>

\* remove_artwork_tempdirs when every shutil.rmtree(path) either removes
\* the tree or raises FileNotFoundError (artwork.py:20-24).
TeardownReturns ==
    /\ CanTeardown
    /\ fs_dirs' = fs_dirs \ artwork_tempdirs
    /\ td_attempted' = artwork_tempdirs
    /\ td_pc' = "returned"
    /\ td_runs' = td_runs + 1
    /\ UNCHANGED <<artwork_tempdirs, created, callVars, labelVars, otherVars>>

\* remove_artwork_tempdirs when shutil.rmtree(e) raises another error (such
\* as PermissionError) on an existing directory e: only FileNotFoundError
\* is caught, so the error escapes the loop after the paths walked before e.
TeardownRaises ==
    /\ CanTeardown
    /\ \E e \in artwork_tempdirs \cap fs_dirs :
       \E before \in SUBSET (artwork_tempdirs \ {e}) :
          /\ fs_dirs' = fs_dirs \ before
          /\ td_attempted' = before \cup {e}
    /\ td_pc' = "raised"
    /\ td_runs' = td_runs + 1
    /\ UNCHANGED <<artwork_tempdirs, created, callVars, labelVars, otherVars>>

\* A scratch directory is removed by other means than the cleanup hook.
ExternalRemove ==
    /\ \E d \in fs_dirs : fs_dirs' = fs_dirs \ {d}
    /\ UNCHANGED <<artwork_tempdirs, created, td_pc, td_runs, td_attempted>>
    /\ UNCHANGED <<callVars, labelVars, otherVars>>

NextArtwork ==
    \/ \E p \in Calls : CallShortCircuit(p)
    \/ \E p \in Calls : CallMakedirsRaises(p)
    \/ \E p \in Calls : CallSchedules(p)
    \/ \E p \in Calls : CallNoTasks(p)
    \/ \E p \in Calls, t \in TaskKinds : TaskOk(p, t)
    \/ \E p \in Calls, t \in TaskKinds : TaskFail(p, t)
    \/ \E p \in Calls : GatherOk(p)
    \/ \E p \in Calls : GatherFail(p)
    \/ TeardownReturns
    \/ TeardownRaises
    \/ ExternalRemove

\* Arguments of one download_artwork call.
ArtworkInputs ==
    [folder : {<<"f1">>}, covers : Catalogs, config : Configs, for_playlist : BOOLEAN]

CallsInit(present, inputs) ==
    /\ \E given \in [present -> inputs] :
          a_in = [p \in Calls |-> IF p \in present THEN given[p]
                                  ELSE CHOOSE x \in inputs : TRUE]
    /\ a_pc = [p \in Calls |-> IF p \in present THEN "idle" ELSE "absent"]
    /\ covers = [p \in Calls |-> a_in[p].covers]
    /\ a_saved = [p \in Calls |-> None]
    /\ a_embed = [p \in Calls |-> None]
    /\ a_tasks = [p \in Calls |-> NoTasks]
    /\ a_made = [p \in Calls |-> None]
    /\ a_ret = [p \in Calls |-> None]
    /\ a_exc = [p \in Calls |-> ""]
    /\ a_downscaled = [p \in Calls |-> {}]
    /\ a_setters = [p \in Calls |-> {}]
    /\ artwork_tempdirs = {}
    /\ fs_dirs = {}
    /\ created = {}
    /\ td_pc = "idle"
    /\ td_runs = 0
    /\ td_attempted = {}

\* One download_artwork call with any arguments, then the cleanup hook.
InitArtwork == LabelQuiet /\ OtherQuiet /\ CallsInit({1}, ArtworkInputs)

SpecArtwork == InitArtwork /\ [][NextArtwork]_vars

\* Several calls in flight together: each embeds (or not) into one of two
\* folders, from a catalog whose embed variant is or is not materialized.
RegistryConfigs ==
    { c \in Configs : c.save_artwork = FALSE /\ c.embed_size = "small"
                      /\ c.saved_max_width = 0 }

RegistryCatalogs ==
    { c \in Catalogs : c["large"] = [url |-> UrlOf("large"), path |-> None]
                       /\ c["small"].url = UrlOf("small") }

RegistryInputs ==
    [folder : Folders, covers : RegistryCatalogs, config : RegistryConfigs,
     for_playlist : {FALSE}]

InitRegistry == LabelQuiet /\ OtherQuiet /\ CallsInit(Calls, RegistryInputs)

SpecRegistry == InitRegistry /\ [][NextArtwork]_vars

\* ------------------------------------------------- claims on artwork.py
CallOver(p) == a_pc[p] \in {"returned", "raised"}
SomeTaskFailed(p) == \E t \in TaskKinds : a_tasks[p][t] = "failed"

\* C4: when a scheduled download task of the batch failed, the catalog is
\* as it was before the call, and once the call is over it has returned
\* (None, None), also when the other task succeeded or the other decision
\* needed no download.
C4_FailedBatchLeavesCatalog ==
    \A p \in Calls : SomeTaskFailed(p) =>
        /\ covers[p] = a_in[p].covers
        /\ CallOver(p) => a_pc[p] = "returned" /\ a_ret[p] = <<None, None>>

\* Witness: the call returned after one task failed while the other had
\* succeeded.
C4_Witness ==
    \E p \in Calls :
        /\ a_pc[p] = "returned"
        /\ \E t, u \in TaskKinds : a_tasks[p][t] = "failed" /\ a_tasks[p][u] = "ok"

\* C5: a path is recorded in the catalog for a decision with a positive
\* max-width bound only after downscale_image completed on that file, so a
\* call that ends with a downscale failure leaves the catalog as it was.
C5_NoCatalogUpdateBeforeResize ==
    \A p \in Calls :
        /\ a_exc[p] \in {"downscale_saved", "downscale_embed"} =>
              covers[p] = a_in[p].covers
        /\ (a_pc[p] \in {"returned", "raised"} /\ ~empty(a_in[p].covers)) =>
              /\ (/\ SaveActive(p) /\ a_in[p].config.saved_max_width > 0
                  /\ largest(covers[p]).path # largest(a_in[p].covers).path)
                     => largest(covers[p]).path \in a_downscaled[p]
              /\ (/\ EmbedActive(p) /\ a_in[p].config.embed_max_width > 0
                  /\ covers[p][a_in[p].config.embed_size].path
                        # a_in[p].covers[a_in[p].config.embed_size].path)
                     => covers[p][a_in[p].config.embed_size].path \in a_downscaled[p]

\* C6: remove_artwork_tempdirs never raises and passes every registered
\* path to shutil.rmtree, whatever each removal does.
C6_TeardownNeverRaises ==
    td_runs > 0 => td_pc = "returned" /\ td_attempted = artwork_tempdirs

\* C7: every scratch directory created by a download_artwork call is in
\* _artwork_tempdirs from then on, however the call ends; once the calls
\* are over and remove_artwork_tempdirs has returned, none of them exists.
C7_ScratchDirsRegistered ==
    /\ created \subseteq artwork_tempdirs
    /\ \A p \in Calls : (a_made[p] # None /\ a_pc[p] # "idle") =>
            a_made[p] \in artwork_tempdirs
    /\ td_pc = "returned" => created \cap fs_dirs = {}

\* Witness: two scratch directories were created, one by a call whose
\* download failed and one by a call whose downscale raised, and the
\* cleanup has returned.
C7_Witness ==
    /\ td_pc = "returned"
    /\ Cardinality(created) = 2
    /\ \E p, q \in Calls :
          /\ a_made[p] # None /\ a_exc[p] = "downscale_embed"
          /\ a_made[q] # None /\ a_pc[q] = "returned" /\ SomeTaskFailed(q)

\* C10: a variant that already has a local path is not downloaded again:
\* no task for an active save (embed) decision whose variant has a path,
\* for embed no scratch directory made or registered either; and a call
\* that needed no task and returns, returns the existing local paths.
C10_NoRedownload ==
    \A p \in Calls :
        (a_pc[p] \notin {"absent", "idle"} /\ ~empty(a_in[p].covers)) =>
            LET l0 == largest(a_in[p].covers)
                e0 == get_size(a_in[p].covers, a_in[p].config.embed_size)
            IN  /\ (SaveActive(p) /\ l0.path # None) => a_tasks[p].saved = "none"
                /\ (EmbedActive(p) /\ e0.path # None) =>
                      /\ a_tasks[p].embed = "none"
                      /\ a_made[p] = None
                      /\ Join(a_in[p].folder, "__artwork") \notin artwork_tempdirs \cup fs_dirs
                /\ (/\ a_tasks[p] = NoTasks /\ a_pc[p] = "returned"
                    /\ (SaveActive(p) \/ EmbedActive(p))) =>
                      a_ret[p] = << IF EmbedActive(p) THEN e0.path ELSE None,
                                    IF SaveActive(p) THEN l0.path ELSE None >>

\* Witness: both decisions active, both variants materialized, the call
\* returned the two existing paths without a task.
C10_Witness ==
    \E p \in Calls :
        /\ a_pc[p] = "returned"
        /\ SaveActive(p) /\ EmbedActive(p)
        /\ a_tasks[p] = NoTasks
        /\ a_ret[p] = <<OldPath, OldPath>>

\* C11: when neither decision is active or the catalog is empty, the call
\* returns (None, None) at once and changes nothing else: no task, no
\* scratch directory, registry, filesystem and catalog as they were.
NothingToDo(p) ==
    \/ ~((a_in[p].config.save_artwork /\ ~a_in[p].for_playlist) \/ a_in[p].config.embed)
    \/ \A k \in KeySet : covers[p][k].url = None /\ covers[p][k].path = None

C11_Step(p) ==
    (a_pc[p] = "idle" /\ a_pc'[p] # "idle" /\ NothingToDo(p)) =>
        /\ a_pc'[p] = "returned"
        /\ a_ret'[p] = <<None, None>>
        /\ UNCHANGED <<covers, a_tasks, a_made, a_saved, a_embed, a_setters, a_downscaled>>
        /\ UNCHANGED <<artwork_tempdirs, fs_dirs, created>>

C11_ShortCircuit == [][\A p \in Calls : C11_Step(p)]_vars

\* Witness: a call with embedding on and an empty catalog has returned
\* (None, None).
C11_Witness ==
    \E p \in Calls :
        /\ a_pc[p] = "returned" /\ a_ret[p] = <<None, None>>
        /\ a_in[p].config.embed /\ empty(a_in[p].covers)

\* C12: in a playlist context no save decision exists: no task for
\* <folder>/cover.jpg, no saved path, set_largest_path never invoked, the
\* returned saved path is None; with save_artwork on and embed off the call
\* returns (None, None) and touches nothing.
C12_PlaylistSuppression ==
    \A p \in Calls : (a_pc[p] # "absent" /\ a_in[p].for_playlist) =>
        /\ a_tasks[p].saved = "none"
        /\ a_saved[p] = None
        /\ "set_largest_path" \notin a_setters[p]
        /\ a_pc[p] = "returned" => a_ret[p][2] = None
        /\ (a_in[p].config.save_artwork /\ ~a_in[p].config.embed /\ a_pc[p] # "idle") =>
              /\ a_pc[p] = "returned" /\ a_ret[p] = <<None, None>>
              /\ a_tasks[p] = NoTasks /\ a_made[p] = None
              /\ covers[p] = a_in[p].covers
              /\ a_in[p].folder \notin {SubSeq(d, 1, 1) : d \in artwork_tempdirs \cup created}

\* Witness: a playlist call with save_artwork and embed on returned an
\* embed path and no saved path.
C12_Witness ==
    \E p \in Calls :
        /\ a_in[p].for_playlist /\ a_in[p].config.save_artwork /\ a_in[p].config.embed
        /\ a_pc[p] = "returned"
        /\ a_ret[p][1] # None /\ a_ret[p][2] = None

\* C13: a cleanup that returns leaves no registered directory on the
\* filesystem (the same directory registered by several calls counts
\* once); a cleanup run when every registered directory is already absent,
\* after an earlier cleanup or a removal by other means, returns and leaves
\* the filesystem as it was; a missing path never makes the cleanup raise.
IsTeardownStep == td_runs' = td_runs + 1

C13_Step ==
    IsTeardownStep =>
        /\ td_pc' = "returned" => artwork_tempdirs \cap fs_dirs' = {}
        /\ artwork_tempdirs \cap fs_dirs = {} =>
               td_pc' = "returned" /\ fs_dirs' = fs_dirs
        /\ td_pc' = "raised" => td_attempted' \cap fs_dirs' # {}

C13_CleanupCompleteIdempotent == [][C13_Step]_vars

\* Witness: two registered directories, the cleanup ran twice, the last
\* run returned and nothing is left.
C13_Witness ==
    /\ td_runs = 2 /\ td_pc = "returned"
    /\ Cardinality(artwork_tempdirs) = 2
    /\ created = artwork_tempdirs
    /\ fs_dirs = {}

\* C16: when download_artwork is over, none of the download tasks it
\* launched is still running.
C16_BatchDrained ==
    \A p \in Calls : CallOver(p) => \A t \in TaskKinds : a_tasks[p][t] # "running"

\* C17: the registry always equals the union of the scratch directories
\* the calls registered, whatever their interleaving; it only grows; a
\* directory registered twice is held once.
RegisteredByCalls == { a_made[p] : p \in {q \in Calls : a_made[q] # None} }

C17_Step ==
    /\ artwork_tempdirs \subseteq artwork_tempdirs'
    /\ artwork_tempdirs' = RegisteredByCalls'

C17_NoLostRegistration == [][C17_Step]_vars

\* Witness: two calls are suspended in their download batch and the
\* registry holds the directory of each.
C17_Witness ==
    /\ \A p \in Calls : a_pc[p] = "downloading" /\ a_made[p] # None
    /\ Cardinality(artwork_tempdirs) = 2

\* C15: Label.download runs to completion: control leaves it by a return,
\* and at that point every item is terminal, none Pending, none in flight.
C15_RunsToCompletion ==
    DownloadOver =>
        /\ dl_pc = "returned"
        /\ \A i \in Items : ItemState(i) \in {"Done", "Failed"}
        /\ InFlight = {}

\* ------------------------------------------------------ PendingLabel.resolve
MaxIds == 4
AlbumIds == {"a", "b"}

\* The album-id lists a label's metadata can carry.
IdLists == UNION { [1..n -> AlbumIds] : n \in 0..MaxIds }

\* label.py:82-85: one PendingAlbum per album id, in the order of
\* meta.album_ids(); a PendingAlbum is identified by its album id.
PendingAlbums(ids) == [k \in 1..Len(ids) |-> [album_id |-> ids[k]]]

ResolveUnchanged == UNCHANGED <<labelVars, artVars, batchVars, imageVars>>

\* label.py:72-73: get_metadata returns a response.
GetMetadataReturns ==
    /\ pl_pc = "created"
    /\ pl_pc' = "fetched"
    /\ UNCHANGED <<pl_ids, pl_out>>
    /\ ResolveUnchanged

\* label.py:74-76: get_metadata raises NonStreamableError: logged, None.
GetMetadataNonStreamable ==
    /\ pl_pc = "created"
    /\ pl_pc' = "returned_none"
    /\ UNCHANGED <<pl_ids, pl_out>>
    /\ ResolveUnchanged

\* label.py:72-74: get_metadata raises an error that is not a
\* NonStreamableError: no except clause matches, resolve raises it.
GetMetadataOtherError ==
    /\ pl_pc = "created"
    /\ pl_pc' = "raised"
    /\ UNCHANGED <<pl_ids, pl_out>>
    /\ ResolveUnchanged

\* label.py:77-81: LabelMetadata.from_resp raises: logged, None.
FromRespRaises ==
    /\ pl_pc = "fetched"
    /\ pl_pc' = "returned_none"
    /\ UNCHANGED <<pl_ids, pl_out>>
    /\ ResolveUnchanged

\* label.py:77-86: the metadata is built and the Label is returned.
ResolveReturnsLabel ==
    /\ pl_pc = "fetched"
    /\ pl_pc' = "returned_label"
    /\ pl_out' = PendingAlbums(pl_ids)
    /\ UNCHANGED pl_ids
    /\ ResolveUnchanged

NextResolve ==
    \/ GetMetadataReturns
    \/ GetMetadataNonStreamable
    \/ GetMetadataOtherError
    \/ FromRespRaises
    \/ ResolveReturnsLabel

InitResolve ==
    /\ LabelQuiet /\ ArtQuiet
    /\ pl_pc = "created"
    /\ pl_ids \in IdLists
    /\ pl_out = <<>>
    /\ b_iterable = <<>> /\ b_n = 1 /\ b_pc = "absent" /\ b_out = <<>>
    /\ img_size = <<1, 1>> /\ img_orig = <<1, 1>> /\ img_first = <<1, 1>>
    /\ ds_max = 1 /\ ds_runs = 0 /\ ds_last = "absent"

SpecResolve == InitResolve /\ [][NextResolve]_vars

\* C14: resolve never raises: a failure of the metadata collaborator, of
\* any kind, or of the construction of the metadata ends in a return of
\* None; otherwise the Label owns one PendingAlbum per album id, in order.
C14_ResolveNeverRaises ==
    /\ pl_pc # "raised"
    /\ pl_pc = "returned_label" =>
          /\ Len(pl_out) = Len(pl_ids)
          /\ \A k \in 1..Len(pl_ids) : pl_out[k].album_id = pl_ids[k]

\* -------------------------------------------------- Label.batch on its own
MaxBatchLen == 4
MaxBatchN == 3
BatchElems == {"a", "b"}

BatchInputs == UNION { [1..n -> BatchElems] : n \in 0..MaxBatchLen }

BatchUnchanged == UNCHANGED <<labelVars, artVars, resolveVars, imageVars>>

\* label.py:59-61: the generator is resumed and yields its next slice.
BatchYield ==
    /\ b_pc \in {"created", "running"}
    /\ Len(b_out) < Len(batch(b_iterable, b_n))
    /\ b_out' = Append(b_out, batch(b_iterable, b_n)[Len(b_out) + 1])
    /\ b_pc' = "running"
    /\ UNCHANGED <<b_iterable, b_n>>
    /\ BatchUnchanged

\* label.py:59: range(0, total, n) is exhausted, the generator ends.
BatchStop ==
    /\ b_pc \in {"created", "running"}
    /\ Len(b_out) = Len(batch(b_iterable, b_n))
    /\ b_pc' = "done"
    /\ UNCHANGED <<b_iterable, b_n, b_out>>
    /\ BatchUnchanged

NextBatch == BatchYield \/ BatchStop

InitBatch ==
    /\ LabelQuiet /\ ArtQuiet
    /\ pl_pc = "absent" /\ pl_ids = <<>> /\ pl_out = <<>>
    /\ b_iterable \in BatchInputs
    /\ b_n \in 1..MaxBatchN
    /\ b_pc = "created"
    /\ b_out = <<>>
    /\ img_size = <<1, 1>> /\ img_orig = <<1, 1>> /\ img_first = <<1, 1>>
    /\ ds_max = 1 /\ ds_runs = 0 /\ ds_last = "absent"

SpecBatch == InitBatch /\ [][NextBatch]_vars

RECURSIVE Concat(_)
Concat(chunks) ==
    IF chunks = <<>> THEN <<>>
    ELSE Concat(SubSeq(chunks, 1, Len(chunks) - 1)) \o chunks[Len(chunks)]

\* C18: the chunks yielded by Label.batch(items, n), n >= 1, are a
\* contiguous partition of items in order: their concatenation is items,
\* none is empty, all but the last hold exactly n elements, the last holds
\* 1..n, and an empty input yields no chunk.
C18_BatchPartitions ==
    /\ \A k \in 1..Len(b_out) :
          /\ Len(b_out[k]) \in 1..b_n
          /\ Len(b_out[k]) < b_n =>
                k = Len(b_out) /\ Concat(b_out) = b_iterable
    /\ b_pc = "done" =>
          /\ Concat(b_out) = b_iterable
          /\ b_iterable = <<>> => b_out = <<>>
    /\ b_pc = "running" =>
          Concat(b_out) = SubSeq(b_iterable, 1, Len(Concat(b_out)))

\* Witness: four items in chunks of three: a full chunk and a last chunk
\* of one.
C18_Witness ==
    /\ b_pc = "done"
    /\ Len(b_iterable) = 4 /\ b_n = 3
    /\ Len(b_out) = 2 /\ Len(b_out[2]) = 1

\* ---------------------------------------------------------- downscale_image
MaxSide == 24
MaxDimension == 24
MaxRuns == 2

Max(a, b) == IF a >= b THEN a ELSE b

RECURSIVE Pow2(_)
Pow2(n) == IF n = 0 THEN 1 ELSE 2 * Pow2(n - 1)

\* Number of doublings that bring d into [L, 2L): d / L = m * 2^-Norm with
\* 1 <= m < 2, so -Norm(d, L) is the binary exponent of the quotient d / L.
RECURSIVE Norm(_, _)
Norm(d, L) == IF d >= L THEN 0 ELSE 1 + Norm(2 * d, L)

\* Binary exponent of an integer k >= 1.
RECURSIVE Log2(_)
Log2(k) == IF k < 2 THEN 0 ELSE 1 + Log2(k \div 2)

\* Remainder of the binary long division of r by L after n more quotient
\* bits.
RECURSIVE DivRem(_, _, _)
DivRem(r, L, n) == IF n = 0 THEN r ELSE DivRem((2 * r) % L, L, n - 1)

\* The float quotient max_dimension / larger (artwork.py:126, 129) for
\* 1 <= d < L: a binary64 quotient keeps 53 bits, the leading one and 52
\* more, so the division stops Norm(d, L) + 52 bits after the binary point
\* with remainder rem, and is rounded to nearest: down when 2 * rem < L, up
\* when 2 * rem > L (2 * rem = L cannot happen: it needs L to divide
\* d * 2^53, and then rem = 0).  QuotientDeficit is L * 2^(52 + Norm) times
\* the amount by which the float quotient is BELOW d / L, 0 when it is exact
\* or rounded up.
QuotientDeficit(d, L) ==
    LET rem == DivRem(d % L, L, 52 + Norm(d, L))
    IN  IF 2 * rem < L THEN rem ELSE 0

\* int(s * (d / L)) as binary64 computes it (artwork.py:126, 129), for
\* 1 <= s <= L and 1 <= d < L.  The float quotient q differs from d / L by
\* less than 2^-53 relative, and so does the rounded product from s * q.
\*  - s * d / L not an integer: it is at least 1 / L away from an integer,
\*    the two roundings cannot cross that gap, int() gives the exact floor.
\*  - s * d / L = k, an integer: the product s * q is k minus
\*    s * deficit / (L * 2^(52 + Norm)).  It rounds to k unless it lies
\*    beyond the midpoint between k and the float just below k, which is
\*    2^(Log2(k) - 53) below k (2^(Log2(k) - 54) when k is a power of two);
\*    at the midpoint the tie goes to k, whose last mantissa bit is 0.
\*    Beyond the midpoint the product is below k and int() gives k - 1.
float_scale(s, d, L) ==
    LET k == (s * d) \div L
        deficit == QuotientDeficit(d, L)
        g == Log2(k) + Norm(d, L) - 1
        lhs == IF k = Pow2(Log2(k)) THEN 2 * s * deficit ELSE s * deficit
    IN  IF (s * d) % L # 0 THEN k
        ELSE IF lhs > L * Pow2(g) THEN k - 1 ELSE k

\* Faulty variant: the smaller side is set to max_dimension and the larger
\* side is scaled.
new_dimensions_by_smaller(width, height, max_dimension) ==
    IF width > height
    THEN <<(width * max_dimension) \div height, max_dimension>>
    ELSE <<max_dimension, (height * max_dimension) \div width>>

\* artwork.py:124-129
new_dimensions(width, height, max_dimension) ==
    IF width > height
    THEN <<max_dimension, float_scale(height, max_dimension, width)>>
    ELSE <<float_scale(width, max_dimension, height), max_dimension>>

DownscaleUnchanged == UNCHANGED <<labelVars, artVars, resolveVars, batchVars>>

\* The application just made is counted, and the size after the first one
\* is kept.
Applied(size, outcome) ==
    /\ img_size' = size
    /\ ds_runs' = ds_runs + 1
    /\ ds_last' = outcome
    /\ img_first' = IF ds_runs = 0 THEN size ELSE img_first
    /\ UNCHANGED <<img_orig, ds_max>>
    /\ DownscaleUnchanged

\* artwork.py:120-121: the image already fits, nothing is written.
DownscaleNoop ==
    /\ ds_runs < MaxRuns
    /\ ds_max >= Max(img_size[1], img_size[2])
    /\ Applied(img_size, "noop")

\* artwork.py:124-135: the image is resized and saved in place.
DownscaleResize ==
    /\ ds_runs < MaxRuns
    /\ ds_max < Max(img_size[1], img_size[2])
    /\ LET new == new_dimensions(img_size[1], img_size[2], ds_max)
       IN  /\ new[1] >= 1 /\ new[2] >= 1
           /\ Applied(new, "resized")

\* artwork.py:132: a computed side of 0 is refused by image.resize, which
\* raises; the file is not written.
DownscaleRaises ==
    /\ ds_runs < MaxRuns
    /\ ds_max < Max(img_size[1], img_size[2])
    /\ LET new == new_dimensions(img_size[1], img_size[2], ds_max)
       IN  /\ new[1] < 1 \/ new[2] < 1
           /\ Applied(img_size, "raised")

NextDownscale == DownscaleNoop \/ DownscaleResize \/ DownscaleRaises

InitDownscale ==
    /\ LabelQuiet /\ ArtQuiet
    /\ pl_pc = "absent" /\ pl_ids = <<>> /\ pl_out = <<>>
    /\ b_iterable = <<>> /\ b_n = 1 /\ b_pc = "absent" /\ b_out = <<>>
    /\ img_size \in (1..MaxSide) \X (1..MaxSide)
    /\ img_orig = img_size
    /\ img_first = img_size
    /\ ds_max \in 1..MaxDimension
    /\ ds_runs = 0
    /\ ds_last = "absent"

SpecDownscale == InitDownscale /\ [][NextDownscale]_vars

\* C19: after downscale_image on an image (w, h) with bound d: when
\* d < max(w, h) the larger side is d and the smaller side is the
\* truncated value of smaller * d / larger, both sides positive; when
\* max(w, h) <= d the image is unchanged.
C19_OutputDimensions ==
    ds_runs >= 1 =>
        LET larger == Max(img_orig[1], img_orig[2])
            smaller == Min(img_orig[1], img_orig[2])
        IN  IF ds_max < larger
            THEN /\ Max(img_first[1], img_first[2]) = ds_max
                 /\ Min(img_first[1], img_first[2]) = (smaller * ds_max) \div larger
                 /\ img_first[1] >= 1 /\ img_first[2] >= 1
            ELSE img_first = img_orig /\ (ds_runs = 1 => ds_last = "noop")

\* C20: a second downscale_image with the same bound writes nothing: the
\* dimensions after two applications are those after one.
C20_Idempotent ==
    ds_runs = 2 => img_size = img_first /\ ds_last # "resized"

\* Witness: a 22 x 22 image under a bound of 15 was resized by the first
\* application and left alone by the second.
C20_Witness ==
    /\ ds_runs = 2
    /\ img_orig = <<22, 22>> /\ ds_max = 15
    /\ img_first # img_orig
    /\ img_size = img_first
    /\ ds_last = "noop"

====
